---- MODULE Spec2Model ----
(***************************************************************************)
(* Execution coordination and versioned editor state of EurynIDE.          *)
(*                                                                         *)
(* Part 1 models AgentLockManager (cache/cache_strategies.py) and          *)
(* AgentCoordinator.execute_agent (services/orchestrator/                  *)
(* agent_coordinator.py): every await of the coroutine is one action, so   *)
(* concurrent requests interleave exactly where the event loop may switch. *)
(* Part 2 models SessionManager.sync_editor_state / rollback_to_version    *)
(* (services/orchestrator/session_manager.py) over the editor_states table *)
(* (database/models.py), with get_editor_history, delete_session and       *)
(* EditorStateRepository.delete_old_versions.                              *)
(* Part 3 models BaseAgent.run (services/agents/base.py) with the result   *)
(* cache, QwenClient.complete_with_retry (services/llm/qwen_client.py)     *)
(* and AgentCoordinator.handle_agent_failure.                              *)
(* Part 4 models AgentCoordinator.execute_agent_chain and                  *)
(* execute_parallel_agents, whose steps are calls of execute_agent.        *)
(* Part 5 models functions called on their own: the cache key of           *)
(* BaseAgent.generate_cache_key and AnalysisCache, and                     *)
(* AgentCoordinator.route_and_execute with the allow-lists of              *)
(* ModeDispatcher (services/orchestrator/mode_dispatcher.py), and          *)
(* QwenClient.complete_with_retry for every max_retries.                   *)
(***************************************************************************)
EXTENDS Integers, Sequences, FiniteSets, TLC

\* ---------------------------------------------------------------------
\* Part 1: execution lock and execute_agent
\* ---------------------------------------------------------------------

\* request ids are uuid4 strings, one per call (api/v1/literature.py:67)
Requests == {"r1", "r2", "r3"}

Sessions == {"s1"}

\* agent types _register_agents puts into self.agents: one whose AgentConfig
\* has enable_cache=True and one whose AgentConfig has enable_cache=False
RegisteredAgents == {"polish", "chat"}

\* agent_type is a free string of the caller; "no_such_agent" stands for
\* every string that is not registered
AgentTypes == RegisteredAgents \cup {"no_such_agent"}

\* value of a Redis key that does not exist (GET answers None)
NoHolder == "none"

\* CacheKeyBuilder.agent_lock: one key per (session, agent name)
agent_lock(s, a) == <<"lock", "agent", s, a>>

\* the values of the enum AgentType
AgentTypeValues ==
    {"grammar_checker", "polish", "structure_analyzer", "health_scorer",
     "math_validator", "logic_tree_builder", "debugger", "chat", "ocr"}

LockKeys == {agent_lock(s, a) : s \in Sessions, a \in AgentTypes \cup AgentTypeValues}

VARIABLES
    lock,            \* Redis: lock key -> request id stored, or NoHolder
    granted,         \* history: lock key -> requests whose acquire answered true
                     \*   and that have neither finished release_lock nor had
                     \*   their TTL expire
    pc,              \* request -> position inside execute_agent
    session_id,      \* request -> session_id argument
    agent_type,      \* request -> agent_type argument
    lock_acquired,   \* request -> value of lock_acquired ("unset" before)
    constructed,     \* request -> agent_class(**kwargs) was called
    current_holder,  \* request -> local current_holder of release_lock
    release_result,  \* request -> return value of release_lock ("none" before)
    result           \* request -> AgentResult returned ("none" before)

execVars == <<lock, granted, pc, session_id, agent_type, lock_acquired,
              constructed, current_holder, release_result, result>>

\* ----- state of part 2 (declared here so that every action frames it) -----

\* one SessionManager call in flight per writer (one per HTTP/WebSocket request,
\* each with its own AsyncSession)
Writers == {"w1", "w2"}

VARIABLES
    editor_states,       \* session -> rows of table editor_states, in insert order
    total_interactions,  \* session -> column sessions.total_interactions
    content_cache,       \* session -> Redis entry session:<id>:content, or None
    status,              \* session -> column sessions.status
    writer               \* writer -> arguments, locals and outcome of its call

syncVars == <<editor_states, total_interactions, content_cache, status, writer>>

\* ----- state of part 3 (BaseAgent.run, result cache, provider calls) -----

VARIABLES
    analysis_cache,  \* Redis: analysis cache key -> payload stored, or None
    agent_run,       \* request -> inputs, locals and result fields of
                     \*   execute_agent / BaseAgent.run / complete_with_retry
    failure_handler  \* handler -> arguments, locals and result of one call
                     \*   of handle_agent_failure

runVars == <<analysis_cache, agent_run, failure_handler>>

\* ----- state of part 4 (chain and parallel execution) -----

VARIABLES
    chain_call,      \* caller -> arguments, locals and outcome of its call of
                     \*   execute_agent_chain
    parallel_call    \* caller -> arguments, tasks and outcome of its call of
                     \*   execute_parallel_agents

\* ----- state of part 5 (calls of single functions) -----

VARIABLES
    key_call,        \* caller -> arguments and value of its call of
                     \*   generate_cache_key
    route_call,      \* caller -> arguments, locals and outcome of its call of
                     \*   route_and_execute
    llm_call         \* caller -> arguments, locals and outcome of its call of
                     \*   complete_with_retry

auxVars == <<key_call, route_call, llm_call>>

callVars == <<chain_call, parallel_call, auxVars>>

vars == <<execVars, syncVars, runVars, callVars>>

KeyOf(r) == agent_lock(session_id[r], agent_type[r])

\* mutant of RedisSetNX: a plain SET, as if nx=True were left out
RedisSetPlain(store, k, v) ==
    [reply |-> TRUE, store |-> [store EXCEPT ![k] = v]]

\* Redis SET key value NX EX ttl: sets only when the key is absent; the
\* reply is truthy exactly when the key was set
RedisSetNX(store, k, v) ==
    [reply |-> store[k] = NoHolder,
     store |-> IF store[k] = NoHolder THEN [store EXCEPT ![k] = v] ELSE store]

\* Redis DEL key
RedisDelete(store, k) == [store EXCEPT ![k] = NoHolder]

\* AgentLockManager.acquire_lock: one round trip, bool(reply)
acquire_lock(store, s, a, r) == RedisSetNX(store, agent_lock(s, a), r)

InitExec ==
    /\ lock = [k \in LockKeys |-> NoHolder]
    /\ granted = [k \in LockKeys |-> {}]
    /\ pc = [r \in Requests |-> "idle"]
    /\ session_id = [r \in Requests |-> "none"]
    /\ agent_type = [r \in Requests |-> "none"]
    /\ lock_acquired = [r \in Requests |-> "unset"]
    /\ constructed = [r \in Requests |-> FALSE]
    /\ current_holder = [r \in Requests |-> "unread"]
    /\ release_result = [r \in Requests |-> "none"]
    /\ result = [r \in Requests |-> "none"]

\* execute_agent up to and including `if not lock_acquired: return ...`
AcquireOrBusy(r, s, a) ==
    /\ pc[r] = "idle"
    /\ LET got == acquire_lock(lock, s, a, r)
           k == agent_lock(s, a)
       IN /\ lock' = got.store
          /\ session_id' = [session_id EXCEPT ![r] = s]
          /\ agent_type' = [agent_type EXCEPT ![r] = a]
          /\ IF got.reply
             THEN /\ lock_acquired' = [lock_acquired EXCEPT ![r] = "true"]
                  /\ granted' = [granted EXCEPT ![k] = @ \cup {r}]
                  /\ pc' = [pc EXCEPT ![r] = "acquired"]
                  /\ result' = result
             ELSE /\ lock_acquired' = [lock_acquired EXCEPT ![r] = "false"]
                  /\ granted' = granted
                  /\ pc' = [pc EXCEPT ![r] = "returned"]
                  /\ result' = [result EXCEPT ![r] = "busy"]
    /\ UNCHANGED <<constructed, current_holder, release_result>>

\* a call of execute_agent whose input_kwargs play no part
ExecuteAgentAcquire(r, s, a) ==
    /\ AcquireOrBusy(r, s, a)
    /\ UNCHANGED <<syncVars, runVars, callVars>>

\* the SET raises RedisError: acquire_lock is called outside the try block,
\* so the exception leaves execute_agent
ExecuteAgentAcquireRaises(r, s, a) ==
    /\ pc[r] = "idle"
    /\ session_id' = [session_id EXCEPT ![r] = s]
    /\ agent_type' = [agent_type EXCEPT ![r] = a]
    /\ pc' = [pc EXCEPT ![r] = "raised"]
    /\ UNCHANGED <<lock, granted, lock_acquired, constructed, current_holder,
                   release_result, result>>
    /\ UNCHANGED <<syncVars, runVars, callVars>>

\* mutant of GetAgent: release_lock at the end of the try body instead of
\* in `finally`, so that an exception of get_agent returns without release
GetAgentNoFinally(r, ctorRaises) ==
    /\ pc[r] = "acquired"
    /\ IF agent_type[r] \notin RegisteredAgents
       THEN /\ result' = [result EXCEPT ![r] = "error"]
            /\ pc' = [pc EXCEPT ![r] = "returned"]
            /\ constructed' = constructed
       ELSE /\ constructed' = [constructed EXCEPT ![r] = TRUE]
            /\ IF ctorRaises
               THEN /\ result' = [result EXCEPT ![r] = "error"]
                    /\ pc' = [pc EXCEPT ![r] = "returned"]
               ELSE /\ result' = result
                    /\ pc' = [pc EXCEPT ![r] = "running"]
    /\ UNCHANGED <<lock, granted, session_id, agent_type, lock_acquired,
                   current_holder, release_result>>
    /\ UNCHANGED <<syncVars, runVars, callVars>>

\* get_agent: AgentNotFoundException for an unregistered type, otherwise
\* agent_class(**agent_kwargs), which may raise (bad kwargs); both are
\* caught by `except Exception` and give a failing AgentResult
GetAgent(r, ctorRaises) ==
    /\ pc[r] = "acquired"
    /\ IF agent_type[r] \notin RegisteredAgents
       THEN /\ result' = [result EXCEPT ![r] = "error"]
            /\ pc' = [pc EXCEPT ![r] = "release_get"]
            /\ constructed' = constructed
       ELSE /\ constructed' = [constructed EXCEPT ![r] = TRUE]
            /\ IF ctorRaises
               THEN /\ result' = [result EXCEPT ![r] = "error"]
                    /\ pc' = [pc EXCEPT ![r] = "release_get"]
               ELSE /\ result' = result
                    /\ pc' = [pc EXCEPT ![r] = "running"]
    /\ UNCHANGED <<lock, granted, session_id, agent_type, lock_acquired,
                   current_holder, release_result>>
    /\ UNCHANGED <<syncVars, runVars, callVars>>

\* await agent.run(**input_kwargs): BaseAgent.run catches every exception
\* and answers an AgentResult with success true or false
AgentRun(r, success) ==
    /\ pc[r] = "running"
    /\ result' = [result EXCEPT ![r] = IF success THEN "success" ELSE "failure"]
    /\ pc' = [pc EXCEPT ![r] = "release_get"]
    /\ UNCHANGED <<lock, granted, session_id, agent_type, lock_acquired,
                   constructed, current_holder, release_result>>
    /\ UNCHANGED <<syncVars, runVars, callVars>>

\* mutant of ReleaseLockGet: the holder is read but not compared with
\* request_id
ReleaseLockGetNoCompare(r) ==
    /\ pc[r] = "release_get"
    /\ current_holder' = [current_holder EXCEPT ![r] = lock[KeyOf(r)]]
    /\ pc' = [pc EXCEPT ![r] = "release_delete"]
    /\ UNCHANGED <<lock, granted, session_id, agent_type, lock_acquired,
                   constructed, release_result, result>>
    /\ UNCHANGED <<syncVars, runVars, callVars>>

\* release_lock, first round trip: current_holder = await self.cache.get(key);
\* a holder other than request_id ends release_lock with False
ReleaseLockGet(r) ==
    /\ pc[r] = "release_get"
    /\ current_holder' = [current_holder EXCEPT ![r] = lock[KeyOf(r)]]
    /\ IF lock[KeyOf(r)] = r
       THEN /\ pc' = [pc EXCEPT ![r] = "release_delete"]
            /\ release_result' = release_result
            /\ granted' = granted
       ELSE /\ pc' = [pc EXCEPT ![r] = "returned"]
            /\ release_result' = [release_result EXCEPT ![r] = "false"]
            /\ granted' = [granted EXCEPT ![KeyOf(r)] = @ \ {r}]
    /\ UNCHANGED <<lock, session_id, agent_type, lock_acquired, constructed,
                   result>>
    /\ UNCHANGED <<syncVars, runVars, callVars>>

\* release_lock, second round trip: await self.cache.delete(key); return True
ReleaseLockDelete(r) ==
    /\ pc[r] = "release_delete"
    /\ lock' = RedisDelete(lock, KeyOf(r))
    /\ release_result' = [release_result EXCEPT ![r] = "true"]
    /\ granted' = [granted EXCEPT ![KeyOf(r)] = @ \ {r}]
    /\ pc' = [pc EXCEPT ![r] = "returned"]
    /\ UNCHANGED <<session_id, agent_type, lock_acquired, constructed,
                   current_holder, result>>
    /\ UNCHANGED <<syncVars, runVars, callVars>>

\* a round trip of release_lock raises CacheException: it is raised inside
\* `finally`, so it replaces the pending return and leaves execute_agent
ReleaseLockRaises(r) ==
    /\ pc[r] \in {"release_get", "release_delete"}
    /\ pc' = [pc EXCEPT ![r] = "raised"]
    /\ UNCHANGED <<lock, granted, session_id, agent_type, lock_acquired,
                   constructed, current_holder, release_result, result>>
    /\ UNCHANGED <<syncVars, runVars, callVars>>

\* Redis drops the key when its TTL (lock_ttl = 30 s) runs out; nothing in
\* execute_agent bounds the time between two of its awaits below that
LockExpires(k) ==
    /\ lock[k] # NoHolder
    /\ lock' = [lock EXCEPT ![k] = NoHolder]
    /\ granted' = [granted EXCEPT ![k] = @ \ {lock[k]}]
    /\ UNCHANGED <<pc, session_id, agent_type, lock_acquired, constructed,
                   current_holder, release_result, result>>
    /\ UNCHANGED <<syncVars, runVars, callVars>>

NextExec ==
    \/ \E r \in Requests, s \in Sessions, a \in AgentTypes :
           ExecuteAgentAcquire(r, s, a)
    \/ \E r \in Requests, s \in Sessions, a \in AgentTypes :
           ExecuteAgentAcquireRaises(r, s, a)
    \/ \E r \in Requests, ctorRaises \in BOOLEAN : GetAgent(r, ctorRaises)
    \/ \E r \in Requests, success \in BOOLEAN : AgentRun(r, success)
    \/ \E r \in Requests : ReleaseLockGet(r)
    \/ \E r \in Requests : ReleaseLockDelete(r)
    \/ \E r \in Requests : ReleaseLockRaises(r)
    \/ \E k \in LockKeys : LockExpires(k)


\* ---------------------------------------------------------------------
\* Part 2: versioned editor state (SessionManager)
\* ---------------------------------------------------------------------

\* Optional[T]: None is the empty set, a value x is {x}
None == {}
Some(x) == {x}
Get(o) == CHOOSE x \in o : TRUE

\* a new call is started only while the session has fewer rows than this
MaxRows == 2

\* explicit `version` arguments are drawn from 0..MaxExplicitVersion
\* (SyncEditorRequest.version is an Optional[int] without a lower bound)
MaxExplicitVersion == 2

\* sequential calls are made until the session has this many rows
MaxSeqCalls == 4

Contents == {"a", "b"}

ExplicitVersions == 0..MaxExplicitVersion

MaxOf(S) == CHOOSE x \in S : \A y \in S : y <= x

\* select(EditorState).where(session_id == ..).order_by(version.desc()).limit(1)
\* followed by scalar_one_or_none(); only .version of the row is used
LatestState(rows) ==
    IF Len(rows) = 0 THEN None
    ELSE Some(MaxOf({rows[i].version : i \in 1..Len(rows)}))

\* mutant of VersionConflict: `<` in place of `<=`
VersionConflictStrict(version, latest_state) ==
    /\ version # None
    /\ latest_state # None
    /\ Get(version) < Get(latest_state)

\* `if latest_state and version <= latest_state.version` under
\* `if version is not None`
VersionConflict(version, latest_state) ==
    /\ version # None
    /\ latest_state # None
    /\ Get(version) <= Get(latest_state)

\* new_version = version, or latest_state.version + 1, or 1
NewVersion(version, latest_state) ==
    IF version # None THEN Get(version)
    ELSE IF latest_state # None THEN Get(latest_state) + 1
    ELSE 1

\* mutant of ParentVersion: parent_version is never filled in
ParentVersionUnset(latest_state) == None

\* parent_version = latest_state.version if latest_state else None
ParentVersion(latest_state) == latest_state

\* select(EditorState).where(session_id == .., version == target_version)
RowsWithVersion(rows, v) == {i \in 1..Len(rows) : rows[i].version = v}

Min(a, b) == IF a <= b THEN a ELSE b

\* get_editor_history: the rows of the session with from_version <= version
\* <= to_version (each bound optional), ORDER BY version DESC LIMIT limit.
\* The database leaves the order of rows with equal version open, so the
\* value is the set of sequences the query may answer.
get_editor_history(rows, from_version, to_version, limit) ==
    LET idx == {i \in 1..Len(rows) :
                   /\ from_version # None => rows[i].version >= Get(from_version)
                   /\ to_version # None => rows[i].version <= Get(to_version)}
        n == Cardinality(idx)
        orders == {q \in [1..n -> idx] :
                      \A i \in 1..n, j \in 1..n :
                          i < j => /\ q[i] # q[j]
                                   /\ rows[q[i]].version >= rows[q[j]].version}
    IN {[k \in 1..Min(n, limit) |-> rows[q[k]]] : q \in orders}

IdleWriter ==
    [pc |-> "idle", op |-> "none", session_id |-> "none", content |-> "none",
     version |-> None, change_type |-> None, latest_state |-> None,
     new_version |-> None, total_interactions |-> 0, min_version |-> None,
     out |-> [kind |-> "none", version |-> None, expected |-> None,
              actual |-> None, states |-> <<>>]]

Finished(w, kind, version, expected, actual) ==
    [IdleWriter EXCEPT !.pc = "done",
                       !.out = [kind |-> kind, version |-> version,
                                expected |-> expected, actual |-> actual,
                                states |-> <<>>]]

InProgress(w) == writer[w].pc \notin {"idle", "done"}

InitSync ==
    /\ editor_states = [s \in Sessions |-> <<>>]
    /\ total_interactions = [s \in Sessions |-> 0]
    /\ content_cache = [s \in Sessions |-> None]
    /\ status = [s \in Sessions |-> "active"]
    /\ writer = [w \in Writers |-> IdleWriter]

\* a client calls sync_editor_state(session_id, content, version=version)
BeginSync(w, s, content, version) ==
    /\ ~InProgress(w)
    /\ writer' = [writer EXCEPT ![w] =
                     [IdleWriter EXCEPT !.pc = "get_session", !.op = "sync",
                                        !.session_id = s, !.content = content,
                                        !.version = version]]
    /\ UNCHANGED <<editor_states, total_interactions, content_cache>>
    /\ UNCHANGED <<status, execVars, runVars, callVars>>

\* a call that may overlap the calls of the other writers
StartSync(w, s, content, version) ==
    /\ Len(editor_states[s]) < MaxRows
    /\ BeginSync(w, s, content, version)

\* the session has fewer than MaxSeqCalls rows and its next version number
\* is at most MaxSeqCalls
WithinSeqCalls(s) ==
    /\ Len(editor_states[s]) < MaxSeqCalls
    /\ \A v \in LatestState(editor_states[s]) : v < MaxSeqCalls

\* a call without explicit version made while no other call is in progress
StartSyncAlone(w, s, content) ==
    /\ \A o \in Writers : ~InProgress(o)
    /\ WithinSeqCalls(s)
    /\ BeginSync(w, s, content, None)

\* rollback_to_version up to its call of sync_editor_state: the target row
\* is read with scalar_one_or_none(), which answers None for no row and
\* raises MultipleResultsFound for more than one
BeginRollback(w, s, target_version) ==
    /\ ~InProgress(w)
    /\ LET found == RowsWithVersion(editor_states[s], target_version)
       IN writer' = [writer EXCEPT ![w] =
              IF found = {}
              THEN Finished(w, "validation_error", None, None, None)
              ELSE IF Cardinality(found) > 1
              THEN Finished(w, "multiple_results", None, None, None)
              ELSE [IdleWriter EXCEPT
                       !.pc = "get_session", !.op = "rollback",
                       !.session_id = s,
                       !.content = editor_states[s][Get(found)].content,
                       !.change_type = Some("rollback")]]
    /\ UNCHANGED <<editor_states, total_interactions, content_cache>>
    /\ UNCHANGED <<status, execVars, runVars, callVars>>

\* a rollback that may overlap the calls of the other writers
RollbackToVersion(w, s, target_version) ==
    /\ Len(editor_states[s]) < MaxRows
    /\ BeginRollback(w, s, target_version)

\* session = await self.get_session(session_id): reads the session row
\* (last_accessed_at, which it writes, is not part of the model)
SyncGetSession(w) ==
    /\ writer[w].pc = "get_session"
    /\ writer' = [writer EXCEPT ![w].pc = "select_latest",
                                ![w].total_interactions =
                                    total_interactions[writer[w].session_id]]
    /\ UNCHANGED <<editor_states, total_interactions, content_cache>>
    /\ UNCHANGED <<status, execVars, runVars, callVars>>

\* the SELECT of the latest row and the code up to the next await: either
\* SessionConflictException, or new_version is fixed and the INSERT is sent
SyncSelectLatest(w) ==
    /\ writer[w].pc = "select_latest"
    /\ LET latest_state == LatestState(editor_states[writer[w].session_id])
       IN writer' = [writer EXCEPT ![w] =
              IF VersionConflict(writer[w].version, latest_state)
              THEN Finished(w, "conflict", None, writer[w].version, latest_state)
              ELSE [@ EXCEPT !.pc = "commit_state",
                             !.latest_state = latest_state,
                             !.new_version =
                                 Some(NewVersion(writer[w].version, latest_state))]]
    /\ UNCHANGED <<editor_states, total_interactions, content_cache>>
    /\ UNCHANGED <<status, execVars, runVars, callVars>>

\* self.db.add(editor_state); await self.db.commit()
SyncCommitState(w) ==
    /\ writer[w].pc = "commit_state"
    /\ editor_states' =
           [editor_states EXCEPT ![writer[w].session_id] =
               Append(@, [version |-> Get(writer[w].new_version),
                          parent_version |-> ParentVersion(writer[w].latest_state),
                          content |-> writer[w].content,
                          change_type |-> writer[w].change_type])]
    /\ writer' = [writer EXCEPT ![w].pc = "commit_stats"]
    /\ UNCHANGED <<total_interactions, content_cache>>
    /\ UNCHANGED <<status, execVars, runVars, callVars>>

\* session.total_interactions += 1; await self.db.commit(): the UPDATE
\* writes the value loaded by get_session plus one
SyncCommitStats(w) ==
    /\ writer[w].pc = "commit_stats"
    /\ total_interactions' =
           [total_interactions EXCEPT ![writer[w].session_id] =
               writer[w].total_interactions + 1]
    /\ writer' = [writer EXCEPT ![w].pc = "set_content"]
    /\ UNCHANGED <<editor_states, content_cache>>
    /\ UNCHANGED <<status, execVars, runVars, callVars>>

\* await self.cache.set_content(session_id, content, new_version, ..);
\* return editor_state
SyncSetContent(w) ==
    /\ writer[w].pc = "set_content"
    /\ content_cache' =
           [content_cache EXCEPT ![writer[w].session_id] =
               Some([content |-> writer[w].content,
                     version |-> Get(writer[w].new_version)])]
    /\ writer' = [writer EXCEPT ![w] =
                     Finished(w, "ok", writer[w].new_version, None, None)]
    /\ UNCHANGED <<editor_states, total_interactions>>
    /\ UNCHANGED <<status, execVars, runVars, callVars>>

NextSync ==
    \/ \E w \in Writers, s \in Sessions, c \in Contents :
           StartSync(w, s, c, None)
    \/ \E w \in Writers, s \in Sessions, c \in Contents, v \in ExplicitVersions :
           StartSync(w, s, c, Some(v))
    \/ \E w \in Writers, s \in Sessions, v \in 1..(MaxExplicitVersion + 1) :
           RollbackToVersion(w, s, v)
    \/ \E w \in Writers : SyncGetSession(w)
    \/ \E w \in Writers : SyncSelectLatest(w)
    \/ \E w \in Writers : SyncCommitState(w)
    \/ \E w \in Writers : SyncCommitStats(w)
    \/ \E w \in Writers : SyncSetContent(w)

\* ----- further operations of the state store -----

NoCallInProgress == \A o \in Writers : ~InProgress(o)

\* a rollback made while no other call is in progress
RollbackAlone(w, s, target_version) ==
    /\ NoCallInProgress
    /\ WithinSeqCalls(s)
    /\ BeginRollback(w, s, target_version)

\* get_editor_history: one SELECT, the rows are returned as a list
GetEditorHistory(w, s, from_version, to_version, limit) ==
    /\ ~InProgress(w)
    /\ \E h \in get_editor_history(editor_states[s], from_version, to_version,
                                   limit) :
           writer' = [writer EXCEPT ![w] =
                         [Finished(w, "ok", None, None, None)
                              EXCEPT !.out.states = h]]
    /\ UNCHANGED <<editor_states, total_interactions, content_cache, status>>
    /\ UNCHANGED <<execVars, runVars, callVars>>

\* min_version of delete_old_versions: the smallest version among the
\* keep_latest rows with the largest versions, None without such a row
MinKeptVersion(rows, keep_latest) ==
    LET h == CHOOSE x \in get_editor_history(rows, None, None, keep_latest) : TRUE
    IN IF Len(h) = 0 THEN None
       ELSE Some(CHOOSE v \in {h[k].version : k \in 1..Len(h)} :
                     \A k \in 1..Len(h) : v <= h[k].version)

\* EditorStateRepository.delete_old_versions up to its DELETE: the SELECT of
\* min_version, `return 0` when there is none
DeleteOldVersions(w, s, keep_latest) ==
    /\ ~InProgress(w)
    /\ LET min_version == MinKeptVersion(editor_states[s], keep_latest)
       IN writer' = [writer EXCEPT ![w] =
              IF min_version = None
              THEN Finished(w, "ok", None, None, None)
              ELSE [IdleWriter EXCEPT !.pc = "delete_versions",
                                      !.op = "delete_old_versions",
                                      !.session_id = s,
                                      !.min_version = min_version]]
    /\ UNCHANGED <<editor_states, total_interactions, content_cache, status>>
    /\ UNCHANGED <<execVars, runVars, callVars>>

\* DELETE FROM editor_states WHERE session_id = .. AND version < min_version
\* (the repository leaves the commit to the unit of work of its caller)
DeleteOldVersionsDelete(w) ==
    /\ writer[w].pc = "delete_versions"
    /\ editor_states' =
           [editor_states EXCEPT ![writer[w].session_id] =
               SelectSeq(@, LAMBDA row : row.version >= Get(writer[w].min_version))]
    /\ writer' = [writer EXCEPT ![w] = Finished(w, "ok", None, None, None)]
    /\ UNCHANGED <<total_interactions, content_cache, status>>
    /\ UNCHANGED <<execVars, runVars, callVars>>

\* delete_session up to its own commit: session = await self.get_session(..)
DeleteSession(w, s) ==
    /\ ~InProgress(w)
    /\ writer' = [writer EXCEPT ![w] =
                     [IdleWriter EXCEPT !.pc = "delete_commit",
                                        !.op = "delete_session",
                                        !.session_id = s]]
    /\ UNCHANGED <<editor_states, total_interactions, content_cache, status>>
    /\ UNCHANGED <<execVars, runVars, callVars>>

\* session.status = "deleted"; await self.db.commit()
DeleteSessionCommit(w) ==
    /\ writer[w].pc = "delete_commit"
    /\ status' = [status EXCEPT ![writer[w].session_id] = "deleted"]
    /\ writer' = [writer EXCEPT ![w].pc = "delete_cache"]
    /\ UNCHANGED <<editor_states, total_interactions, content_cache>>
    /\ UNCHANGED <<execVars, runVars, callVars>>

\* await self.cache.delete_session_cache(session_id): every key
\* session:<id>:* is deleted, the content entry among them
DeleteSessionCache(w) ==
    /\ writer[w].pc = "delete_cache"
    /\ content_cache' = [content_cache EXCEPT ![writer[w].session_id] = None]
    /\ writer' = [writer EXCEPT ![w] = Finished(w, "ok", None, None, None)]
    /\ UNCHANGED <<editor_states, total_interactions, status>>
    /\ UNCHANGED <<execVars, runVars, callVars>>

\* ---------------------------------------------------------------------
\* Part 3: BaseAgent.run, result cache and complete_with_retry
\* ---------------------------------------------------------------------

\* the requests whose run is modelled step by step
RunRequests == {"r1", "r2"}

\* input_kwargs of a call: two texts that pass validate_inputs and a call
\* without text, for which validate_inputs raises ValueError
Inputs == {"text_a", "text_b", "no_text"}

ValidInputs(kw) == kw # "no_text"

\* values of parse_response; every agent answers a non-empty dict, so a
\* cached payload always passes `if cached_result:`
Payloads == {"p1", "p2"}

\* AgentConfig.enable_cache: True for PolishAgent, False for ChatAgent
enable_cache(a) == a = "polish"

\* AgentConfig.retry_attempts = settings.agent_retry_attempts
retry_attempts == 3

\* generate_cache_key: sha256 over the agent name and the input kwargs
generate_cache_key(a, kw) == <<"analysis", a, kw>>

CacheKeys == {generate_cache_key(a, kw) : a \in RegisteredAgents, kw \in Inputs}

\* what one request to the provider may end in
ProviderOutcomes == {"ok", "rate_limit", "token_limit", "authentication",
                     "timeout"}

\* QwenClient.complete, `except Exception`: the exception class it raises,
\* chosen by the text of the provider error
complete_raises(outcome) ==
    CASE outcome = "rate_limit" -> "LLMRateLimitException"
      [] outcome = "token_limit" -> "LLMTokenLimitException"
      [] OTHER -> "LLMAPIException"

\* complete_with_retry: `except LLMRateLimitException: raise` leaves the
\* loop, `except Exception` keeps every other exception for another attempt
RaisedAtOnce(exception) == exception = "LLMRateLimitException"

IdleRun ==
    [inputs |-> "none", completed_before |-> {}, attempt |-> 0,
     provider_calls |-> 0, sleeps |-> <<>>, last_outcome |-> "none",
     outcomes |-> {},
     last_exception |-> "none", error |-> "none", data |-> None,
     from_cache |-> None, fallback |-> None,
     cache_reads |-> 0, cache_writes |-> 0]

InitRun ==
    /\ analysis_cache = [k \in CacheKeys |-> None]
    /\ agent_run = [r \in Requests |-> IdleRun]

\* execute_agent(agent_type, session_id, request_id, **input_kwargs) up to
\* and including `if not lock_acquired: return ...`; completed_before keeps
\* which calls had returned when this one was made
ExecuteAgent(r, s, a, kw) ==
    /\ AcquireOrBusy(r, s, a)
    /\ agent_run' = [agent_run EXCEPT
                        ![r].inputs = kw,
                        ![r].completed_before =
                            {q \in Requests : pc[q] = "returned"}]
    /\ UNCHANGED <<syncVars, analysis_cache, failure_handler, callVars>>

\* BaseAgent.run, `except Exception`: AgentResult(success=False, data=None,
\* error=str(e), metadata={execution_time_ms, agent})
RunFails(r, exception) ==
    /\ result' = [result EXCEPT ![r] = "failure"]
    /\ pc' = [pc EXCEPT ![r] = "release_get"]
    /\ agent_run' = [agent_run EXCEPT ![r].error = exception,
                                      ![r].data = None]

\* mutant of RunGetFromCache: the cache is asked before the inputs are
\* validated
RunGetFromCacheFirst(r, cacheRaises) ==
    /\ pc[r] = "running"
    /\ LET a == agent_type[r]
           kw == agent_run[r].inputs
           reads == IF enable_cache(a) THEN 1 ELSE 0
           cached_result ==
               IF enable_cache(a) /\ ~cacheRaises
               THEN analysis_cache[generate_cache_key(a, kw)]
               ELSE None
       IN IF cached_result # None
          THEN /\ result' = [result EXCEPT ![r] = "success"]
               /\ pc' = [pc EXCEPT ![r] = "release_get"]
               /\ agent_run' = [agent_run EXCEPT
                                   ![r].data = cached_result,
                                   ![r].from_cache = Some(TRUE),
                                   ![r].cache_reads = @ + reads]
          ELSE IF ~ValidInputs(kw)
          THEN /\ result' = [result EXCEPT ![r] = "failure"]
               /\ pc' = [pc EXCEPT ![r] = "release_get"]
               /\ agent_run' = [agent_run EXCEPT
                                   ![r].error = "ValueError",
                                   ![r].data = None,
                                   ![r].cache_reads = @ + reads]
          ELSE /\ pc' = [pc EXCEPT ![r] = "llm"]
               /\ agent_run' = [agent_run EXCEPT ![r].cache_reads = @ + reads]
               /\ result' = result
    /\ UNCHANGED <<lock, granted, session_id, agent_type, lock_acquired,
                   constructed, current_holder, release_result>>
    /\ UNCHANGED <<syncVars, analysis_cache, failure_handler, callVars>>

\* BaseAgent.run up to `if cached_result:`: validate_inputs, then
\* get_from_cache, which answers None when the cache is disabled for the
\* agent or when a round trip of analysis_cache.get_result raises (on a
\* hit get_result writes the entry back with its hit count raised, the
\* payload as it was); cache_reads counts the calls of
\* analysis_cache.get_result
RunGetFromCache(r, cacheRaises) ==
    /\ pc[r] = "running"
    /\ LET a == agent_type[r]
           kw == agent_run[r].inputs
           reads == IF enable_cache(a) THEN 1 ELSE 0
           cached_result ==
               IF enable_cache(a) /\ ~cacheRaises
               THEN analysis_cache[generate_cache_key(a, kw)]
               ELSE None
       IN IF ~ValidInputs(kw)
          THEN RunFails(r, "ValueError")
          ELSE IF cached_result # None
          THEN /\ result' = [result EXCEPT ![r] = "success"]
               /\ pc' = [pc EXCEPT ![r] = "release_get"]
               /\ agent_run' = [agent_run EXCEPT
                                   ![r].data = cached_result,
                                   ![r].from_cache = Some(TRUE),
                                   ![r].cache_reads = @ + reads]
          ELSE /\ pc' = [pc EXCEPT ![r] = "llm"]
               /\ agent_run' = [agent_run EXCEPT ![r].cache_reads = @ + reads]
               /\ result' = result
    /\ UNCHANGED <<lock, granted, session_id, agent_type, lock_acquired,
                   constructed, current_holder, release_result>>
    /\ UNCHANGED <<syncVars, analysis_cache, failure_handler, callVars>>

\* one pass of the loop of complete_with_retry: await self.complete(..)
\* asks the provider once; on success parse_response gives the payload; a
\* raised exception either leaves the loop or is kept for the next pass
Complete(r, outcome, payload) ==
    /\ pc[r] = "llm"
    /\ agent_run[r].attempt < retry_attempts
    /\ LET calls == agent_run[r].provider_calls + 1
           exception == complete_raises(outcome)
       IN IF outcome = "ok"
          THEN /\ pc' = [pc EXCEPT ![r] = "save"]
               /\ agent_run' = [agent_run EXCEPT
                                   ![r].provider_calls = calls,
                                   ![r].last_outcome = outcome,
                                   ![r].outcomes = @ \cup {outcome},
                                   ![r].data = Some(payload)]
               /\ result' = result
          ELSE IF RaisedAtOnce(exception)
                      \/ agent_run[r].attempt >= retry_attempts - 1
          THEN /\ pc' = [pc EXCEPT ![r] = "release_get"]
               /\ result' = [result EXCEPT ![r] = "failure"]
               /\ agent_run' = [agent_run EXCEPT
                                   ![r].provider_calls = calls,
                                   ![r].last_outcome = outcome,
                                   ![r].outcomes = @ \cup {outcome},
                                   ![r].last_exception = exception,
                                   ![r].error = "AgentExecutionException"]
          ELSE /\ pc' = [pc EXCEPT ![r] = "backoff"]
               /\ agent_run' = [agent_run EXCEPT
                                   ![r].provider_calls = calls,
                                   ![r].last_outcome = outcome,
                                   ![r].outcomes = @ \cup {outcome},
                                   ![r].last_exception = exception]
               /\ result' = result
    /\ UNCHANGED <<lock, granted, session_id, agent_type, lock_acquired,
                   constructed, current_holder, release_result>>
    /\ UNCHANGED <<syncVars, analysis_cache, failure_handler, callVars>>

\* wait_time = 2 ** attempt; await asyncio.sleep(wait_time); next pass
BackoffSleep(r) ==
    /\ pc[r] = "backoff"
    /\ agent_run' = [agent_run EXCEPT
                        ![r].sleeps = Append(@, 2 ^ agent_run[r].attempt),
                        ![r].attempt = @ + 1]
    /\ pc' = [pc EXCEPT ![r] = "llm"]
    /\ UNCHANGED <<lock, granted, session_id, agent_type, lock_acquired,
                   constructed, current_holder, release_result, result>>
    /\ UNCHANGED <<syncVars, analysis_cache, failure_handler, callVars>>

\* mutant of RunSaveToCache: the payload is stored, but run then fails on
\* its way to the return
RunSaveToCacheThenFail(r, cacheRaises) ==
    /\ pc[r] = "save"
    /\ LET a == agent_type[r]
           key == generate_cache_key(a, agent_run[r].inputs)
           stored == enable_cache(a) /\ ~cacheRaises
       IN /\ analysis_cache' =
                 IF stored
                 THEN [analysis_cache EXCEPT ![key] = agent_run[r].data]
                 ELSE analysis_cache
          /\ agent_run' = [agent_run EXCEPT
                              ![r].error = "Exception",
                              ![r].cache_writes = IF stored THEN @ + 1 ELSE @]
    /\ result' = [result EXCEPT ![r] = "failure"]
    /\ pc' = [pc EXCEPT ![r] = "release_get"]
    /\ UNCHANGED <<lock, granted, session_id, agent_type, lock_acquired,
                   constructed, current_holder, release_result>>
    /\ UNCHANGED <<syncVars, failure_handler, callVars>>

\* save_to_cache and the successful return of run: the payload is stored
\* unless the cache is disabled for the agent or analysis_cache.set_result
\* raises, which save_to_cache only logs; cache_writes counts the entries
\* written
RunSaveToCache(r, cacheRaises) ==
    /\ pc[r] = "save"
    /\ LET a == agent_type[r]
           key == generate_cache_key(a, agent_run[r].inputs)
           stored == enable_cache(a) /\ ~cacheRaises
       IN /\ analysis_cache' =
                 IF stored
                 THEN [analysis_cache EXCEPT ![key] = agent_run[r].data]
                 ELSE analysis_cache
          /\ agent_run' = [agent_run EXCEPT
                              ![r].from_cache = Some(FALSE),
                              ![r].cache_writes = IF stored THEN @ + 1 ELSE @]
    /\ result' = [result EXCEPT ![r] = "success"]
    /\ pc' = [pc EXCEPT ![r] = "release_get"]
    /\ UNCHANGED <<lock, granted, session_id, agent_type, lock_acquired,
                   constructed, current_holder, release_result>>
    /\ UNCHANGED <<syncVars, failure_handler, callVars>>

NextRun ==
    \/ \E r \in RunRequests, s \in Sessions, a \in AgentTypes, kw \in Inputs :
           ExecuteAgent(r, s, a, kw)
    \/ \E r \in RunRequests, s \in Sessions, a \in AgentTypes :
           ExecuteAgentAcquireRaises(r, s, a)
    \/ \E r \in RunRequests, ctorRaises \in BOOLEAN : GetAgent(r, ctorRaises)
    \/ \E r \in RunRequests, cacheRaises \in BOOLEAN :
           RunGetFromCache(r, cacheRaises)
    \/ \E r \in RunRequests, outcome \in ProviderOutcomes, payload \in Payloads :
           Complete(r, outcome, payload)
    \/ \E r \in RunRequests : BackoffSleep(r)
    \/ \E r \in RunRequests, cacheRaises \in BOOLEAN :
           RunSaveToCache(r, cacheRaises)
    \/ \E r \in RunRequests : ReleaseLockGet(r)
    \/ \E r \in RunRequests : ReleaseLockDelete(r)
    \/ \E r \in RunRequests : ReleaseLockRaises(r)

\* ----- AgentCoordinator.handle_agent_failure -----

\* calls of handle_agent_failure that may be in progress together
Handlers == {"h1", "h2"}

\* type(error).__name__ of the error handed over, as the sequence of the
\* words of the class name: the rate-limit, timeout and connection errors
\* of the provider SDK and of the lock store, the exceptions of this
\* program, and the plain Exception handle_agent_failure builds itself
ErrorTypeNames ==
    {<<"RateLimit", "Error">>, <<"LLM", "RateLimit", "Exception">>,
     <<"Timeout", "Error">>, <<"Connection", "Error">>,
     <<"Agent", "Execution", "Exception">>, <<"Cache", "Exception">>,
     <<"Exception">>}

\* the list retryable_errors
retryable_errors ==
    {<<"Timeout", "Error">>, <<"Connection", "Error">>,
     <<"RateLimit", "Error">>, <<"ServiceUnavailable", "Error">>}

\* `err in error_type` on strings: err occurs as a contiguous part
Contains(name, part) ==
    \E i \in 1..(Len(name) - Len(part) + 1) :
        SubSeq(name, i, i + Len(part) - 1) = part

\* is_retryable = any(err in error_type for err in retryable_errors)
is_retryable(error_type) ==
    \E err \in retryable_errors : Contains(error_type, err)

\* default of the parameter max_retries
handler_max_retries == 3

\* how the execute_agent call of a retry may end: it is made without input
\* kwargs, which no validate_inputs accepts, so it answers a failing
\* AgentResult unless the lock store makes it raise
RetryOutcomes == {<<"Exception">>, <<"Connection", "Error">>,
                  <<"Cache", "Exception">>}

\* _get_fallback_response: the default payload of an agent type
FallbackPayload(a) == <<"fallback", a>>

IdleHandler ==
    [pc |-> "idle", agent_type |-> "none", error_type |-> <<>>,
     first_error_type |-> <<>>,
     retry_count |-> 0, sleeps |-> <<>>, executions |-> 0,
     out |-> [success |-> None, data |-> None, fallback |-> None,
              retry_count |-> None]]

InitFailure == failure_handler = [h \in Handlers |-> IdleHandler]

\* handle_agent_failure from its entry (also the entry of a recursive call)
\* to its first await or its return: either the wait before a retry, or
\* the fallback result
HandlerEnters(rec, error_type, retry_count) ==
    IF is_retryable(error_type) /\ retry_count < handler_max_retries
    THEN [rec EXCEPT !.pc = "sleep", !.error_type = error_type,
                     !.retry_count = retry_count]
    ELSE [rec EXCEPT !.pc = "done", !.error_type = error_type,
                     !.retry_count = retry_count,
                     !.out = [success |-> Some(FALSE),
                              data |-> Some(FallbackPayload(rec.agent_type)),
                              fallback |-> Some(TRUE),
                              retry_count |-> Some(retry_count)]]

\* a caller hands the error of a failed agent to handle_agent_failure;
\* first_error_type keeps the class name of that error
HandleAgentFailure(h, a, error_type) ==
    /\ failure_handler[h].pc \in {"idle", "done"}
    /\ failure_handler' =
           [failure_handler EXCEPT ![h] =
               HandlerEnters([IdleHandler EXCEPT !.agent_type = a,
                                                 !.first_error_type = error_type],
                             error_type, 0)]
    /\ UNCHANGED <<execVars, syncVars, analysis_cache, agent_run, callVars>>

\* backoff_time = 2 ** retry_count; await asyncio.sleep(backoff_time)
HandlerBackoff(h) ==
    /\ failure_handler[h].pc = "sleep"
    /\ failure_handler' =
           [failure_handler EXCEPT
               ![h].pc = "retry",
               ![h].sleeps = Append(@, 2 ^ failure_handler[h].retry_count)]
    /\ UNCHANGED <<execVars, syncVars, analysis_cache, agent_run, callVars>>

\* result = await self.execute_agent(.., agent_kwargs={}) and the
\* recursive call that follows: with Exception(result.error) for a failing
\* result, with the exception itself when execute_agent raised
HandlerRetry(h, outcome) ==
    /\ failure_handler[h].pc = "retry"
    /\ failure_handler' =
           [failure_handler EXCEPT ![h] =
               HandlerEnters([@ EXCEPT !.executions = @ + 1], outcome,
                             failure_handler[h].retry_count + 1)]
    /\ UNCHANGED <<execVars, syncVars, analysis_cache, agent_run, callVars>>

NextFailure ==
    \/ \E h \in Handlers, a \in AgentTypes, error_type \in ErrorTypeNames :
           HandleAgentFailure(h, a, error_type)
    \/ \E h \in Handlers : HandlerBackoff(h)
    \/ \E h \in Handlers, outcome \in RetryOutcomes : HandlerRetry(h, outcome)

\* ---------------------------------------------------------------------
\* Part 4: execute_agent_chain and execute_parallel_agents
\* ---------------------------------------------------------------------

\* the per-request state of execute_agent calls made directly; the calls
\* made by a chain or a parallel batch keep theirs in chain_call and
\* parallel_call
execLocals == <<granted, pc, session_id, agent_type, lock_acquired,
                constructed, current_holder, release_result, result>>

\* request_id=f"{request_id}_{agent_type}": the request id of a step is made
\* of the request id of the whole call and the agent type of the step
step_request_id(c, a) == <<c, a>>

\* AgentResult.success of the results a step may end in: "success" is a
\* successful run, "failure" the failing result of run, "error" the result
\* built by `except Exception` of execute_agent, "busy" the locked result
Success(res) == res = "success"

\* results[agent_type] = result on a dict: the entry of the key is replaced
\* when the key is present
DictSet(d, k, v) == [x \in DOMAIN d \cup {k} |-> IF x = k THEN v ELSE d[x]]


\* what get_agent and agent.run make of a step: AgentNotFoundException for
\* an unregistered type, caught by `except Exception`; otherwise the
\* AgentResult of run
RunResult(a, success) ==
    IF a \notin RegisteredAgents THEN "error"
    ELSE IF success THEN "success" ELSE "failure"

\* callers of execute_agent_chain that may be in progress together
ChainCalls == {"c1", "c2"}

\* the list `agents` has at most this many steps
MaxChainSteps == 2

StepLists(n) == UNION {[1..m -> AgentTypes] : m \in 0..n}

IdleChain ==
    [pc |-> "idle", session_id |-> "none", agents |-> <<>>, pos |-> 0,
     result |-> "none", results |-> <<>>, step_results |-> <<>>]

InitChain == chain_call = [c \in ChainCalls |-> IdleChain]

\* the loop of execute_agent_chain from the return of execute_agent for
\* step pos to the next await or the return of the chain:
\* results[agent_type] = result, `break` on a failing result, otherwise the
\* next step; step_results keeps the result of every step in call order
ChainStepDone(rec, res) ==
    LET stored == [rec EXCEPT !.results = DictSet(@, rec.agents[rec.pos], res),
                              !.step_results = Append(@, res),
                              !.result = "none"]
    IN IF ~Success(res) \/ rec.pos = Len(rec.agents)
       THEN [stored EXCEPT !.pc = "done"]
       ELSE [stored EXCEPT !.pc = "acquire", !.pos = @ + 1]

\* execute_agent_chain(agents, session_id, request_id, initial_input) up to
\* the first await: results = {}; an empty list returns it at once
ExecuteAgentChain(c, s, agents) ==
    /\ chain_call[c].pc = "idle"
    /\ chain_call' = [chain_call EXCEPT ![c] =
           IF Len(agents) = 0
           THEN [IdleChain EXCEPT !.pc = "done", !.session_id = s]
           ELSE [IdleChain EXCEPT !.pc = "acquire", !.session_id = s,
                                  !.agents = agents, !.pos = 1]]
    /\ UNCHANGED <<lock, execLocals, syncVars, runVars, parallel_call, auxVars>>

\* execute_agent of the current step up to `if not lock_acquired: return`
ChainAcquire(c) ==
    /\ chain_call[c].pc = "acquire"
    /\ LET rec == chain_call[c]
           a == rec.agents[rec.pos]
           got == acquire_lock(lock, rec.session_id, a, step_request_id(c, a))
       IN /\ lock' = got.store
          /\ chain_call' = [chain_call EXCEPT ![c] =
                 IF got.reply THEN [rec EXCEPT !.pc = "run"]
                 ELSE ChainStepDone(rec, "busy")]
    /\ UNCHANGED <<execLocals, syncVars, runVars, parallel_call, auxVars>>

\* acquire_lock of the current step raises: the exception leaves
\* execute_agent and, uncaught, execute_agent_chain
ChainAcquireRaises(c) ==
    /\ chain_call[c].pc = "acquire"
    /\ chain_call' = [chain_call EXCEPT ![c].pc = "raised"]
    /\ UNCHANGED <<lock, execLocals, syncVars, runVars, parallel_call, auxVars>>

\* get_agent and await agent.run(**current_input) of the current step
ChainRun(c, success) ==
    /\ chain_call[c].pc = "run"
    /\ LET rec == chain_call[c]
       IN chain_call' = [chain_call EXCEPT
              ![c].result = RunResult(rec.agents[rec.pos], success),
              ![c].pc = "release_get"]
    /\ UNCHANGED <<lock, execLocals, syncVars, runVars, parallel_call, auxVars>>

\* release_lock of the current step, first round trip
ChainReleaseGet(c) ==
    /\ chain_call[c].pc = "release_get"
    /\ LET rec == chain_call[c]
           a == rec.agents[rec.pos]
       IN chain_call' = [chain_call EXCEPT ![c] =
              IF lock[agent_lock(rec.session_id, a)] = step_request_id(c, a)
              THEN [rec EXCEPT !.pc = "release_delete"]
              ELSE ChainStepDone(rec, rec.result)]
    /\ UNCHANGED <<lock, execLocals, syncVars, runVars, parallel_call, auxVars>>

\* release_lock of the current step, second round trip
ChainReleaseDelete(c) ==
    /\ chain_call[c].pc = "release_delete"
    /\ LET rec == chain_call[c]
       IN /\ lock' = RedisDelete(lock, agent_lock(rec.session_id,
                                                  rec.agents[rec.pos]))
          /\ chain_call' = [chain_call EXCEPT ![c] =
                               ChainStepDone(rec, rec.result)]
    /\ UNCHANGED <<execLocals, syncVars, runVars, parallel_call, auxVars>>

\* a round trip of release_lock raises inside `finally`
ChainReleaseRaises(c) ==
    /\ chain_call[c].pc \in {"release_get", "release_delete"}
    /\ chain_call' = [chain_call EXCEPT ![c].pc = "raised"]
    /\ UNCHANGED <<lock, execLocals, syncVars, runVars, parallel_call, auxVars>>

NextChain ==
    \/ \E c \in ChainCalls, s \in Sessions, agents \in StepLists(MaxChainSteps) :
           ExecuteAgentChain(c, s, agents)
    \/ \E c \in ChainCalls : ChainAcquire(c)
    \/ \E c \in ChainCalls : ChainAcquireRaises(c)
    \/ \E c \in ChainCalls, success \in BOOLEAN : ChainRun(c, success)
    \/ \E c \in ChainCalls : ChainReleaseGet(c)
    \/ \E c \in ChainCalls : ChainReleaseDelete(c)
    \/ \E c \in ChainCalls : ChainReleaseRaises(c)

\* ----- execute_parallel_agents -----

\* callers of execute_parallel_agents
ParallelCalls == {"b1"}

\* the list `agents` has at most this many tasks
MaxTasks == 3

IdleTask == [pc |-> "acquire", result |-> "none"]

IdleParallel ==
    [pc |-> "idle", session_id |-> "none", agents |-> <<>>, tasks |-> <<>>,
     results |-> <<>>]

InitParallel == parallel_call = [b \in ParallelCalls |-> IdleParallel]

\* the loop over zip(agent_types, results_list), for its first n items:
\* results[agent_type] = the result of the task, or a failing AgentResult
\* in place of an exception the task raised
RECURSIVE CollectResults(_, _, _)
CollectResults(agents, tasks, n) ==
    IF n = 0 THEN <<>>
    ELSE DictSet(CollectResults(agents, tasks, n - 1), agents[n],
                 IF tasks[n].pc = "raised" THEN "error" ELSE tasks[n].result)

\* execute_parallel_agents(agents, session_id, request_id) up to
\* `await asyncio.gather(*tasks, return_exceptions=True)`: one coroutine of
\* execute_agent per item of the list
ExecuteParallelAgents(b, s, agents) ==
    /\ parallel_call[b].pc = "idle"
    /\ parallel_call' = [parallel_call EXCEPT ![b] =
           [IdleParallel EXCEPT !.pc = "gather", !.session_id = s,
                                !.agents = agents,
                                !.tasks = [i \in 1..Len(agents) |-> IdleTask]]]
    /\ UNCHANGED <<lock, execLocals, syncVars, runVars, chain_call, auxVars>>

\* execute_agent of task i up to `if not lock_acquired: return`
TaskAcquire(b, i) ==
    /\ parallel_call[b].pc = "gather"
    /\ parallel_call[b].tasks[i].pc = "acquire"
    /\ LET rec == parallel_call[b]
           a == rec.agents[i]
           got == acquire_lock(lock, rec.session_id, a, step_request_id(b, a))
       IN /\ lock' = got.store
          /\ parallel_call' = [parallel_call EXCEPT ![b].tasks[i] =
                 IF got.reply THEN [pc |-> "run", result |-> "none"]
                 ELSE [pc |-> "returned", result |-> "busy"]]
    /\ UNCHANGED <<execLocals, syncVars, runVars, chain_call, auxVars>>

\* acquire_lock of task i raises: the exception ends the task and gather
\* keeps it as the result of the task
TaskAcquireRaises(b, i) ==
    /\ parallel_call[b].pc = "gather"
    /\ parallel_call[b].tasks[i].pc = "acquire"
    /\ parallel_call' = [parallel_call EXCEPT ![b].tasks[i].pc = "raised"]
    /\ UNCHANGED <<lock, execLocals, syncVars, runVars, chain_call, auxVars>>

\* get_agent and await agent.run(**input_kwargs) of task i
TaskRun(b, i, success) ==
    /\ parallel_call[b].pc = "gather"
    /\ parallel_call[b].tasks[i].pc = "run"
    /\ parallel_call' = [parallel_call EXCEPT ![b].tasks[i] =
           [pc |-> "release_get",
            result |-> RunResult(parallel_call[b].agents[i], success)]]
    /\ UNCHANGED <<lock, execLocals, syncVars, runVars, chain_call, auxVars>>

\* release_lock of task i, first round trip
TaskReleaseGet(b, i) ==
    /\ parallel_call[b].pc = "gather"
    /\ parallel_call[b].tasks[i].pc = "release_get"
    /\ LET rec == parallel_call[b]
           a == rec.agents[i]
       IN parallel_call' = [parallel_call EXCEPT ![b].tasks[i].pc =
              IF lock[agent_lock(rec.session_id, a)] = step_request_id(b, a)
              THEN "release_delete" ELSE "returned"]
    /\ UNCHANGED <<lock, execLocals, syncVars, runVars, chain_call, auxVars>>

\* release_lock of task i, second round trip
TaskReleaseDelete(b, i) ==
    /\ parallel_call[b].pc = "gather"
    /\ parallel_call[b].tasks[i].pc = "release_delete"
    /\ lock' = RedisDelete(lock, agent_lock(parallel_call[b].session_id,
                                            parallel_call[b].agents[i]))
    /\ parallel_call' = [parallel_call EXCEPT ![b].tasks[i].pc = "returned"]
    /\ UNCHANGED <<execLocals, syncVars, runVars, chain_call, auxVars>>

\* a round trip of release_lock of task i raises inside `finally`
TaskReleaseRaises(b, i) ==
    /\ parallel_call[b].pc = "gather"
    /\ parallel_call[b].tasks[i].pc \in {"release_get", "release_delete"}
    /\ parallel_call' = [parallel_call EXCEPT ![b].tasks[i].pc = "raised"]
    /\ UNCHANGED <<lock, execLocals, syncVars, runVars, chain_call, auxVars>>

\* gather answers once every task has ended; the results are put into the
\* dict in the order of the list and the dict is returned
ParallelGather(b) ==
    /\ parallel_call[b].pc = "gather"
    /\ \A i \in 1..Len(parallel_call[b].tasks) :
           parallel_call[b].tasks[i].pc \in {"returned", "raised"}
    /\ parallel_call' = [parallel_call EXCEPT
           ![b].pc = "done",
           ![b].results = CollectResults(parallel_call[b].agents,
                                         parallel_call[b].tasks,
                                         Len(parallel_call[b].agents))]
    /\ UNCHANGED <<lock, execLocals, syncVars, runVars, chain_call, auxVars>>

NextParallel ==
    \/ \E b \in ParallelCalls, s \in Sessions, agents \in StepLists(MaxTasks) :
           ExecuteParallelAgents(b, s, agents)
    \/ \E b \in ParallelCalls, i \in 1..MaxTasks :
           i <= Len(parallel_call[b].tasks) /\ TaskAcquire(b, i)
    \/ \E b \in ParallelCalls, i \in 1..MaxTasks :
           i <= Len(parallel_call[b].tasks) /\ TaskAcquireRaises(b, i)
    \/ \E b \in ParallelCalls, i \in 1..MaxTasks, success \in BOOLEAN :
           i <= Len(parallel_call[b].tasks) /\ TaskRun(b, i, success)
    \/ \E b \in ParallelCalls, i \in 1..MaxTasks :
           i <= Len(parallel_call[b].tasks) /\ TaskReleaseGet(b, i)
    \/ \E b \in ParallelCalls, i \in 1..MaxTasks :
           i <= Len(parallel_call[b].tasks) /\ TaskReleaseDelete(b, i)
    \/ \E b \in ParallelCalls, i \in 1..MaxTasks :
           i <= Len(parallel_call[b].tasks) /\ TaskReleaseRaises(b, i)
    \/ \E b \in ParallelCalls : ParallelGather(b)

\* ---------------------------------------------------------------------
\* Part 5: functions called on their own
\* ---------------------------------------------------------------------

\* ----- BaseAgent.generate_cache_key and the key of AnalysisCache -----

\* a JSON value: a string, or a dict given by its items in insertion order
Str(x) == [json |-> "str", value |-> x]
Dict(items) == [json |-> "dict", value |-> items]

\* the dicts with keys out of `keys` and values out of `values`, every
\* insertion order of the items counted
Dicts(keys, values) ==
    {Dict(items) : items \in
        {q \in UNION {[1..n -> keys \X values] : n \in 0..Cardinality(keys)} :
            \A i \in 1..Len(q), j \in 1..Len(q) : i # j => q[i][1] # q[j][1]}}

\* every dict key of the model, in the order of Python's string comparison
KeyOrder == <<"agent", "inputs", "options", "text", "x", "y">>

Rank(k) == CHOOSE i \in 1..Len(KeyOrder) : KeyOrder[i] = k

RemoveAt(q, i) == SubSeq(q, 1, i - 1) \o SubSeq(q, i + 1, Len(q))

\* mutant of SortedItems: sort_keys left out, the items stay in insertion
\* order
InsertionOrderItems(items) == items

\* sort_keys=True: the items of a dict ordered by key
RECURSIVE SortedItems(_)
SortedItems(items) ==
    IF Len(items) = 0 THEN <<>>
    ELSE LET i == CHOOSE i \in 1..Len(items) :
                      \A j \in 1..Len(items) : Rank(items[i][1]) <= Rank(items[j][1])
         IN <<items[i]>> \o SortedItems(RemoveAt(items, i))

\* json.dumps(value, sort_keys=True, ensure_ascii=False), as the sequence
\* of the tokens of the text
RECURSIVE json_dumps(_)
RECURSIVE DumpItems(_)
DumpItems(items) ==
    IF Len(items) = 0 THEN <<>>
    ELSE <<items[1][1], ":">> \o json_dumps(items[1][2])
             \o (IF Len(items) > 1 THEN <<",">> ELSE <<>>)
             \o DumpItems(Tail(items))

json_dumps(v) ==
    IF v.json = "str" THEN <<v.value>>
    ELSE <<"{">> \o DumpItems(SortedItems(v.value)) \o <<"}">>

\* hashlib.sha256(text.encode()).hexdigest(): equal texts give equal
\* digests, different texts are taken to give different ones
sha256(text) == <<"sha256", text>>

\* BaseAgent.generate_cache_key(**kwargs) of the agent with config.name
agent_cache_key(name, kwargs) ==
    sha256(json_dumps(Dict(<<<<"agent", Str(name)>>, <<"inputs", kwargs>>>>)))

\* CacheKeyBuilder.generate_content_hash
generate_content_hash(content) == sha256(content)

\* CacheKeyBuilder.analysis_result
analysis_result(analysis_type, content_hash) ==
    <<"analysis", analysis_type, content_hash>>

\* the Redis key AnalysisCache.get_result and set_result use for the agent
\* and its input kwargs
result_cache_key(name, kwargs) ==
    analysis_result(name, generate_content_hash(agent_cache_key(name, kwargs)))

\* == of Python on JSON values: dicts are equal when they have the same keys
\* with equal values, whatever the insertion order
RECURSIVE PyEqual(_, _)
PyEqual(v, w) ==
    /\ v.json = w.json
    /\ IF v.json = "str" THEN v.value = w.value
       ELSE /\ {v.value[i][1] : i \in 1..Len(v.value)}
                   = {w.value[j][1] : j \in 1..Len(w.value)}
            /\ \A i \in 1..Len(v.value), j \in 1..Len(w.value) :
                   v.value[i][1] = w.value[j][1]
                       => PyEqual(v.value[i][2], w.value[j][2])

\* config.name of the agents
AgentNames == {"polish_agent", "chat_agent"}

\* input kwargs: a text and options, the options a dict of their own
NestedDicts == Dicts({"x", "y"}, {Str("1")})

InputKwargs == Dicts({"text", "options"}, {Str("a"), Str("b")} \cup NestedDicts)

KeyCalls == {"k1", "k2"}

IdleKeyCall == [pc |-> "idle", name |-> "none", kwargs |-> Dict(<<>>),
                key |-> <<>>]

InitKey == key_call = [k \in KeyCalls |-> IdleKeyCall]

\* run computes the cache key of its kwargs and AnalysisCache the Redis key
GenerateCacheKey(k, name, kwargs) ==
    /\ key_call[k].pc = "idle"
    /\ key_call' = [key_call EXCEPT ![k] =
                       [pc |-> "done", name |-> name, kwargs |-> kwargs,
                        key |-> result_cache_key(name, kwargs)]]
    /\ UNCHANGED <<execVars, syncVars, runVars, chain_call, parallel_call>>
    /\ UNCHANGED <<route_call, llm_call>>

NextKey ==
    \E k \in KeyCalls, name \in AgentNames, kwargs \in InputKwargs :
        GenerateCacheKey(k, name, kwargs)

\* ----- AgentCoordinator.route_and_execute and ModeDispatcher -----

\* task_type is a free string of the caller; "no_such_task" stands for
\* every string that is not a key of task_agent_map
TaskTypes ==
    {"grammar_check", "polish", "structure_analysis", "health_score",
     "math_validation", "logic_tree", "chat", "ocr", "no_such_task"}

\* task_agent_map.get(task_type)
task_agent_map(task_type) ==
    CASE task_type = "grammar_check" -> Some("grammar_checker")
      [] task_type = "polish" -> Some("polish")
      [] task_type = "structure_analysis" -> Some("structure_analyzer")
      [] task_type = "health_score" -> Some("health_scorer")
      [] task_type = "math_validation" -> Some("math_validator")
      [] task_type = "logic_tree" -> Some("logic_tree_builder")
      [] task_type = "chat" -> Some("chat")
      [] task_type = "ocr" -> Some("ocr")
      [] OTHER -> None

\* mode_configs[mode]["agents"] of ModeDispatcher
mode_agents ==
    [literature |-> {"grammar_checker", "polish", "structure_analyzer",
                     "health_scorer"},
     science |-> {"math_validator", "logic_tree_builder", "debugger"}]

\* context["mode"] of the session; "no_such_mode" stands for every string
\* that is not a key of mode_configs
Modes == {"literature", "science", "no_such_mode"}

\* ModeDispatcher.validate_operation(mode, operation)
validate_operation(mode, operation) ==
    IF mode \notin DOMAIN mode_agents THEN FALSE
    ELSE operation \in mode_agents[mode]

RouteCalls == {"t1", "t2"}

\* lock_requests counts the calls of acquire_lock, ran tells whether
\* get_agent and agent.run were reached
IdleRoute ==
    [pc |-> "idle", task_type |-> "none", mode |-> "none",
     session_id |-> "none", agent_type |-> None, result |-> "none",
     error |-> "none", lock_requests |-> 0, ran |-> FALSE]

InitRoute == route_call = [c \in RouteCalls |-> IdleRoute]

\* route_and_execute(task_type, session_id, request_id, context) up to its
\* call of execute_agent: the agent type is looked up in task_agent_map,
\* AgentNotFoundException when there is none; context["mode"] goes into
\* agent_kwargs
RouteAndExecute(c, task_type, s, mode) ==
    /\ route_call[c].pc = "idle"
    /\ LET agent_type_found == task_agent_map(task_type)
           entered == [IdleRoute EXCEPT !.task_type = task_type, !.mode = mode,
                                        !.session_id = s,
                                        !.agent_type = agent_type_found]
       IN route_call' = [route_call EXCEPT ![c] =
              IF agent_type_found = None
              THEN [entered EXCEPT !.pc = "raised",
                                   !.error = "AgentNotFoundException"]
              ELSE [entered EXCEPT !.pc = "acquire"]]
    /\ UNCHANGED <<lock, execLocals, syncVars, runVars, chain_call,
                   parallel_call, key_call, llm_call>>

\* execute_agent of the routed call up to `if not lock_acquired: return`;
\* the request id is the one of the caller
RouteAcquire(c) ==
    /\ route_call[c].pc = "acquire"
    /\ LET rec == route_call[c]
           got == acquire_lock(lock, rec.session_id, Get(rec.agent_type), c)
       IN /\ lock' = got.store
          /\ route_call' = [route_call EXCEPT ![c] =
                 IF got.reply
                 THEN [rec EXCEPT !.pc = "run", !.lock_requests = @ + 1]
                 ELSE [rec EXCEPT !.pc = "done", !.result = "busy",
                                  !.lock_requests = @ + 1]]
    /\ UNCHANGED <<execLocals, syncVars, runVars, chain_call, parallel_call,
                   key_call, llm_call>>

\* acquire_lock raises: the exception leaves execute_agent and
\* route_and_execute
RouteAcquireRaises(c) ==
    /\ route_call[c].pc = "acquire"
    /\ route_call' = [route_call EXCEPT ![c].pc = "raised",
                                        ![c].error = "CacheException",
                                        ![c].lock_requests = @ + 1]
    /\ UNCHANGED <<lock, execLocals, syncVars, runVars, chain_call,
                   parallel_call, key_call, llm_call>>

\* get_agent(agent_type, **agent_kwargs) and await agent.run(**kwargs):
\* the result of run, or the failing result `except Exception` builds when
\* the constructor raises
RouteRun(c, outcome) ==
    /\ route_call[c].pc = "run"
    /\ route_call' = [route_call EXCEPT ![c].pc = "release_get",
                                        ![c].result = outcome,
                                        ![c].ran = TRUE]
    /\ UNCHANGED <<lock, execLocals, syncVars, runVars, chain_call,
                   parallel_call, key_call, llm_call>>

\* release_lock of the routed call, first round trip
RouteReleaseGet(c) ==
    /\ route_call[c].pc = "release_get"
    /\ LET rec == route_call[c]
       IN route_call' = [route_call EXCEPT ![c].pc =
              IF lock[agent_lock(rec.session_id, Get(rec.agent_type))] = c
              THEN "release_delete" ELSE "done"]
    /\ UNCHANGED <<lock, execLocals, syncVars, runVars, chain_call,
                   parallel_call, key_call, llm_call>>

\* release_lock of the routed call, second round trip
RouteReleaseDelete(c) ==
    /\ route_call[c].pc = "release_delete"
    /\ lock' = RedisDelete(lock, agent_lock(route_call[c].session_id,
                                            Get(route_call[c].agent_type)))
    /\ route_call' = [route_call EXCEPT ![c].pc = "done"]
    /\ UNCHANGED <<execLocals, syncVars, runVars, chain_call, parallel_call,
                   key_call, llm_call>>

\* a round trip of release_lock raises inside `finally`
RouteReleaseRaises(c) ==
    /\ route_call[c].pc \in {"release_get", "release_delete"}
    /\ route_call' = [route_call EXCEPT ![c].pc = "raised",
                                        ![c].error = "CacheException"]
    /\ UNCHANGED <<lock, execLocals, syncVars, runVars, chain_call,
                   parallel_call, key_call, llm_call>>

NextRoute ==
    \/ \E c \in RouteCalls, task_type \in TaskTypes, s \in Sessions,
          mode \in Modes : RouteAndExecute(c, task_type, s, mode)
    \/ \E c \in RouteCalls : RouteAcquire(c)
    \/ \E c \in RouteCalls : RouteAcquireRaises(c)
    \/ \E c \in RouteCalls, outcome \in {"success", "failure", "error"} :
           RouteRun(c, outcome)
    \/ \E c \in RouteCalls : RouteReleaseGet(c)
    \/ \E c \in RouteCalls : RouteReleaseDelete(c)
    \/ \E c \in RouteCalls : RouteReleaseRaises(c)

\* ----- QwenClient.complete_with_retry for any max_retries -----

LlmCalls == {"l1"}

\* max_retries is drawn from 0..MaxRetries
MaxRetries == 4

\* wait_time = 2 ** attempt
wait_time(attempt) == 2 ^ attempt

\* mutant of MoreAttempts: the test `attempt < max_retries` in its place
MoreAttemptsOffByOne(attempt, max_retries) == attempt < max_retries

\* `if attempt < max_retries - 1`: another pass of the loop follows
MoreAttempts(attempt, max_retries) == attempt < max_retries - 1

\* attempts keeps what every request to the provider ended in, in order
IdleLlm ==
    [pc |-> "idle", max_retries |-> 0, attempt |-> 0, attempts |-> <<>>,
     sleeps |-> <<>>, last_exception |-> "none", response |-> None,
     raised |-> "none"]

InitLlm == llm_call = [l \in LlmCalls |-> IdleLlm]

\* the end of `for attempt in range(max_retries)`: raise last_exception, or
\* LLMAPIException when no pass was made
LoopOver(rec) ==
    [rec EXCEPT !.pc = "raised",
                !.raised = IF rec.last_exception # "none"
                           THEN rec.last_exception ELSE "LLMAPIException"]

\* complete_with_retry(system_prompt, user_prompt, max_retries) up to its
\* first await
CompleteWithRetry(l, max_retries) ==
    /\ llm_call[l].pc = "idle"
    /\ llm_call' = [llm_call EXCEPT ![l] =
           LET entered == [IdleLlm EXCEPT !.max_retries = max_retries]
           IN IF max_retries > 0 THEN [entered EXCEPT !.pc = "complete"]
              ELSE LoopOver(entered)]
    /\ UNCHANGED <<execVars, syncVars, runVars, chain_call, parallel_call,
                   key_call, route_call>>

\* one pass of the loop up to its next await: await self.complete(..)
\* returns the response, or raises; LLMRateLimitException is raised again
\* at once, every other exception is kept and either the wait follows or
\* the loop is over
LlmComplete(l, outcome, payload) ==
    /\ llm_call[l].pc = "complete"
    /\ LET rec == [llm_call[l] EXCEPT !.attempts = Append(@, outcome)]
           exception == complete_raises(outcome)
           kept == [rec EXCEPT !.last_exception = exception]
       IN llm_call' = [llm_call EXCEPT ![l] =
              IF outcome = "ok"
              THEN [rec EXCEPT !.pc = "returned", !.response = Some(payload)]
              ELSE IF RaisedAtOnce(exception)
              THEN [rec EXCEPT !.pc = "raised", !.raised = exception]
              ELSE IF MoreAttempts(rec.attempt, rec.max_retries)
              THEN [kept EXCEPT !.pc = "sleep"]
              ELSE LoopOver(kept)]
    /\ UNCHANGED <<execVars, syncVars, runVars, chain_call, parallel_call,
                   key_call, route_call>>

\* await asyncio.sleep(wait_time), then the next pass of the loop
LlmSleep(l) ==
    /\ llm_call[l].pc = "sleep"
    /\ llm_call' = [llm_call EXCEPT ![l] =
           LET slept == [llm_call[l] EXCEPT
                            !.sleeps = Append(@, wait_time(llm_call[l].attempt)),
                            !.attempt = @ + 1]
           IN IF slept.attempt < slept.max_retries
              THEN [slept EXCEPT !.pc = "complete"]
              ELSE LoopOver(slept)]
    /\ UNCHANGED <<execVars, syncVars, runVars, chain_call, parallel_call,
                   key_call, route_call>>

NextLlm ==
    \/ \E l \in LlmCalls, max_retries \in 0..MaxRetries :
           CompleteWithRetry(l, max_retries)
    \/ \E l \in LlmCalls, outcome \in ProviderOutcomes, payload \in Payloads :
           LlmComplete(l, outcome, payload)
    \/ \E l \in LlmCalls : LlmSleep(l)

\* ---------------------------------------------------------------------
\* Specifications
\* ---------------------------------------------------------------------

Init == InitExec /\ InitSync /\ InitRun /\ InitFailure /\ InitChain /\ InitParallel
        /\ InitKey /\ InitRoute /\ InitLlm

\* the execution lock and execute_agent alone
SpecExec == Init /\ [][NextExec]_vars

\* the versioned state store alone
SpecSync == Init /\ [][NextSync]_vars

\* sync_editor_state called without explicit version, one call after the other
NextSyncSeq ==
    \/ \E w \in Writers, s \in Sessions, c \in Contents : StartSyncAlone(w, s, c)
    \/ \E w \in Writers : SyncGetSession(w)
    \/ \E w \in Writers : SyncSelectLatest(w)
    \/ \E w \in Writers : SyncCommitState(w)
    \/ \E w \in Writers : SyncCommitStats(w)
    \/ \E w \in Writers : SyncSetContent(w)

SpecSyncSeq == Init /\ [][NextSyncSeq]_vars

\* one caller suffices for calls made one after the other
StoreWriters == {"w1"}

\* every operation of the state store, one call after the other
NextStore ==
    \/ \E w \in StoreWriters, s \in Sessions, c \in Contents : StartSyncAlone(w, s, c)
    \/ \E w \in StoreWriters, s \in Sessions, v \in 1..MaxSeqCalls :
           RollbackAlone(w, s, v)
    \/ \E w \in StoreWriters, s \in Sessions, f \in {None, Some(2)},
          t \in {None, Some(3)}, limit \in {1, MaxSeqCalls} :
           NoCallInProgress /\ GetEditorHistory(w, s, f, t, limit)
    \/ \E w \in StoreWriters, s \in Sessions, keep_latest \in 0..2 :
           NoCallInProgress /\ DeleteOldVersions(w, s, keep_latest)
    \/ \E w \in StoreWriters : DeleteOldVersionsDelete(w)
    \/ \E w \in StoreWriters, s \in Sessions : NoCallInProgress /\ DeleteSession(w, s)
    \/ \E w \in StoreWriters : DeleteSessionCommit(w)
    \/ \E w \in StoreWriters : DeleteSessionCache(w)
    \/ \E w \in StoreWriters : SyncGetSession(w)
    \/ \E w \in StoreWriters : SyncSelectLatest(w)
    \/ \E w \in StoreWriters : SyncCommitState(w)
    \/ \E w \in StoreWriters : SyncCommitStats(w)
    \/ \E w \in StoreWriters : SyncSetContent(w)

SpecStore == Init /\ [][NextStore]_vars

\* execute_agent with BaseAgent.run, the result cache and the provider; the
\* calls are short against the lock TTL here (its expiry is part of SpecExec)
SpecRun == Init /\ [][NextRun]_vars

\* handle_agent_failure alone
SpecFailure == Init /\ [][NextFailure]_vars

\* execute_agent_chain alone
SpecChain == Init /\ [][NextChain]_vars

\* execute_parallel_agents alone
SpecParallel == Init /\ [][NextParallel]_vars

\* generate_cache_key alone
SpecKey == Init /\ [][NextKey]_vars

\* route_and_execute alone
SpecRoute == Init /\ [][NextRoute]_vars

\* complete_with_retry alone
SpecLlm == Init /\ [][NextLlm]_vars

\* all parts together
Next ==
    \/ NextExec \/ NextSync \/ NextStore \/ NextRun \/ NextFailure
    \/ NextChain \/ NextParallel \/ NextKey \/ NextRoute \/ NextLlm

Spec == Init /\ [][Next]_vars

\* ---------------------------------------------------------------------
\* Properties of the execution lock and of execute_agent
\* ---------------------------------------------------------------------

\* a request is running the analysis while it is inside agent.run, which
\* lies between its successful acquire_lock and its release_lock
InAnalysis(r) == pc[r] = "running"

\* C1: an acquire on a key answers true only when no request holds a grant
\* on that key that it has neither released nor lost to TTL expiry: at any
\* instant at most one request per key has such a grant.
C1_OneLiveGrantPerKey ==
    \A k \in LockKeys : Cardinality(granted[k]) <= 1

\* C2: for any (session, agent kind), no two execute_agent invocations are
\* inside the analysis at the same time.
C2_MutualExclusion ==
    \A r1 \in Requests, r2 \in Requests :
        (r1 # r2 /\ InAnalysis(r1) /\ InAnalysis(r2)) => KeyOf(r1) # KeyOf(r2)

\* C3: an execute_agent call that acquired the lock and has returned went
\* through release_lock, and the lock key is not held by its request id.
C3_LockReleasedOnReturn ==
    \A r \in Requests :
        (pc[r] = "returned" /\ lock_acquired[r] = "true")
            => /\ release_result[r] \in {"true", "false"}
               /\ lock[KeyOf(r)] # r

\* C3 witness: a call that acquired the lock and failed on an unregistered
\* agent type has returned, while another call failed inside agent.run and
\* has returned too.
C3_Witness ==
    \E r1 \in Requests, r2 \in Requests :
        /\ pc[r1] = "returned" /\ lock_acquired[r1] = "true"
        /\ agent_type[r1] \notin RegisteredAgents /\ result[r1] = "error"
        /\ pc[r2] = "returned" /\ lock_acquired[r2] = "true"
        /\ result[r2] = "failure"

\* C4: the DEL of request A's release_lock never removes a lock whose
\* stored holder is another request.
C4_ReleaseRemovesOnlyOwnLock ==
    [][\A r \in Requests :
          (pc[r] = "release_delete" /\ pc'[r] = "returned")
              => lock[KeyOf(r)] \in {r, NoHolder}]_vars

C6_BusyReturnsAtOnce ==
    [][\A r \in Requests :
          (/\ pc[r] = "idle" /\ pc'[r] \notin {"idle", "raised"}
           /\ lock[agent_lock(session_id'[r], agent_type'[r])] \notin {NoHolder, r})
              => /\ pc'[r] = "returned" /\ result'[r] = "busy"
                 /\ lock_acquired'[r] = "false"
                 /\ ~constructed'[r]
                 /\ release_result'[r] = "none"
                 /\ lock' = lock]_vars

\* C6 witness: a request was answered busy while the holder of its key is
\* still inside agent.run and still stored as holder.
C6_Witness ==
    \E r \in Requests, h \in Requests :
        /\ r # h /\ result[r] = "busy" /\ pc[r] = "returned"
        /\ pc[h] = "running" /\ KeyOf(h) = KeyOf(r) /\ lock[KeyOf(r)] = h

\* ---------------------------------------------------------------------
\* Properties of the versioned state store
\* ---------------------------------------------------------------------

Versions(s) == editor_states[s]

\* C7: no two persisted rows of one session carry the same version number.
C7_VersionsUnique ==
    \A s \in Sessions :
        \A i \in 1..Len(Versions(s)), j \in 1..Len(Versions(s)) :
            i # j => Versions(s)[i].version # Versions(s)[j].version

\* C8: after any sequence of sync and rollback operations the rows of a
\* session, in the order they were persisted, carry the versions 1, 2, ..
\* without gap, each later one with the previous version as its parent.
C8_VersionsGapless ==
    \A s \in Sessions :
        \A i \in 1..Len(Versions(s)) :
            /\ Versions(s)[i].version = i
            /\ i > 1 => Versions(s)[i].parent_version = Some(i - 1)

C10_StaleVersionConflicts ==
    [][\A w \in Writers :
          /\ (writer[w].pc = "get_session" /\ writer'[w].pc # "get_session")
                => UNCHANGED <<editor_states, content_cache, total_interactions>>
          /\ (/\ writer[w].pc = "select_latest"
              /\ writer'[w].pc # "select_latest"
              /\ writer[w].version # None
              /\ LatestState(Versions(writer[w].session_id)) # None
              /\ Get(writer[w].version)
                     <= Get(LatestState(Versions(writer[w].session_id))))
                => /\ writer'[w].pc = "done"
                   /\ writer'[w].out.kind = "conflict"
                   /\ writer'[w].out.expected = writer[w].version
                   /\ writer'[w].out.actual =
                          LatestState(Versions(writer[w].session_id))
                   /\ UNCHANGED <<editor_states, content_cache,
                                  total_interactions>>]_vars

\* C10 witness: the scenario of the specification: a sync with explicit
\* version 1 ended in a conflict expected 1, actual 2 after another writer
\* had brought the session to version 2.
C10_Witness ==
    \E w \in Writers, s \in Sessions :
        /\ writer[w].out.kind = "conflict"
        /\ writer[w].out.expected = Some(1)
        /\ writer[w].out.actual = Some(2)
        /\ Len(Versions(s)) = 2
        /\ content_cache[s] # None /\ Get(content_cache[s]).version = 2
        /\ total_interactions[s] = 2

\* C11: on a session without a snapshot a sync with an explicit version
\* <= 0 fails with a version conflict (expected = the explicit version,
\* actual = 0), so in every reachable state no persisted row has a version
\* below 1 and no sync has answered with one.
C11_NoVersionBelowOne ==
    /\ \A s \in Sessions :
           \A i \in 1..Len(Versions(s)) : Versions(s)[i].version >= 1
    /\ \A w \in Writers :
           writer[w].out.kind = "ok" => Get(writer[w].out.version) >= 1

\* C12: for every v in 1..latest, rollback_to_version(session, v) finds the
\* row and goes on to persist exactly one new row: it is numbered latest+1,
\* carries the content of version v and change type "rollback"; the rows
\* persisted before are unchanged and get_editor_history still returns all
\* of them.
C12_RollbackAppendsCopy ==
    [][\A w \in Writers, s \in Sessions :
          LET rows == editor_states[s]
              latest == LatestState(rows)
          IN /\ \A v \in 1..(MaxExplicitVersion + 1) :
                    (RollbackToVersion(w, s, v) /\ latest # None /\ v <= Get(latest))
                        => /\ writer'[w].pc = "get_session"
                           /\ \E i \in RowsWithVersion(rows, v) :
                                  writer'[w].content = rows[i].content
             /\ (SyncCommitState(w) /\ writer[w].op = "rollback"
                     /\ writer[w].session_id = s)
                    => LET new == editor_states'[s]
                       IN /\ Len(new) = Len(rows) + 1
                          /\ SubSeq(new, 1, Len(rows)) = rows
                          /\ new[Len(new)].version = Get(latest) + 1
                          /\ new[Len(new)].content = writer[w].content
                          /\ new[Len(new)].change_type = Some("rollback")
                          /\ \A h \in get_editor_history(new, None, None, Len(new)) :
                                 \A i \in 1..Len(rows) :
                                     \E k \in 1..Len(h) : h[k] = rows[i]]_vars

\* C13: no operation of the state store (sync, rollback, history, cleanup
\* of old versions, soft deletion of the session) modifies or removes a
\* persisted row: in every step the rows of before are a prefix of the rows
\* of after.
C13_RowsNeverRemoved ==
    [][\A s \in Sessions :
          /\ Len(editor_states'[s]) >= Len(editor_states[s])
          /\ SubSeq(editor_states'[s], 1, Len(editor_states[s]))
                 = editor_states[s]]_vars

\* C14: once delete_session has marked a session deleted, every later sync
\* or rollback on it is rejected when it loads the session and no step
\* persists a new row for it, while get_editor_history without range still
\* returns every row of the session.
C14_DeletedSessionRejectsWrites ==
    [][\A s \in Sessions :
          status[s] = "deleted" =>
              /\ Len(editor_states'[s]) <= Len(editor_states[s])
              /\ \A w \in Writers :
                     /\ (SyncGetSession(w) /\ writer[w].session_id = s)
                            => /\ writer'[w].pc = "done"
                               /\ writer'[w].out.kind # "ok"
                     /\ GetEditorHistory(w, s, None, None, MaxSeqCalls)
                            => \A i \in 1..Len(editor_states[s]) :
                                   \E k \in 1..Len(writer'[w].out.states) :
                                       writer'[w].out.states[k]
                                           = editor_states[s][i]]_vars

\* ---------------------------------------------------------------------
\* Properties of BaseAgent.run, the result cache and the provider calls
\* ---------------------------------------------------------------------

\* C15: of two execute_agent calls with the same agent type and the same
\* inputs, the second made after the first had returned success (cache
\* entries do not expire in the model), the second returns success with
\* from_cache true and the data of the first, and both together asked the
\* provider at most once (the second call is given the agent_kwargs of the
\* first, so its agent is constructed as well).
C15_SecondCallServedFromCache ==
    \A r1 \in Requests, r2 \in Requests :
        (/\ r1 # r2
         /\ pc[r1] = "returned" /\ result[r1] = "success"
         /\ pc[r2] = "returned" /\ result[r2] # "error"
         /\ r1 \in agent_run[r2].completed_before
         /\ agent_type[r1] = agent_type[r2]
         /\ agent_run[r1].inputs = agent_run[r2].inputs)
            => /\ result[r2] = "success"
               /\ agent_run[r2].from_cache = Some(TRUE)
               /\ agent_run[r2].data = agent_run[r1].data
               /\ agent_run[r1].provider_calls + agent_run[r2].provider_calls <= 1

\* the result cache holds a payload for agent type a and inputs kw
CacheHolds(a, kw) ==
    /\ a \in RegisteredAgents
    /\ kw \in Inputs
    /\ enable_cache(a)
    /\ analysis_cache[generate_cache_key(a, kw)] # None

\* C16: execute_agent validates, looks into the cache, and only on a miss
\* tries to acquire the lock: a call whose inputs are valid and cached
\* returns the cached payload with from_cache true in its first step,
\* without a request to the lock store, also while another request holds
\* the lock.
C16_CacheHitBeforeLock ==
    [][\A r \in Requests :
          (/\ pc[r] = "idle" /\ pc'[r] # "idle"
           /\ ValidInputs(agent_run'[r].inputs)
           /\ CacheHolds(agent_type'[r], agent_run'[r].inputs))
              => /\ lock' = lock
                 /\ pc'[r] = "returned"
                 /\ result'[r] = "success"
                 /\ agent_run'[r].from_cache = Some(TRUE)
                 /\ agent_run'[r].data
                        = analysis_cache[generate_cache_key(agent_type'[r],
                                                            agent_run'[r].inputs)]]_vars

\* provider errors the specification calls retryable (timeout, connection
\* failure, transient unavailability)
RetryableOutcomes == {"timeout"}

\* C17: when the provider failed with a retryable error on every one of
\* the retry_attempts attempts, execute_agent returns success false with
\* metadata fallback true and the default payload of the agent type.
C17_ExhaustedRetriesFallBack ==
    \A r \in Requests :
        (/\ pc[r] = "returned"
         /\ agent_run[r].provider_calls = retry_attempts
         /\ agent_run[r].outcomes \subseteq RetryableOutcomes)
            => /\ result[r] = "failure"
               /\ agent_run[r].fallback = Some(TRUE)
               /\ agent_run[r].data = Some(FallbackPayload(agent_type[r]))

\* C18: an execute_agent call always ends by returning an AgentResult; no
\* failure - unknown agent type, construction, validation, provider, result
\* cache, lock store during acquire or release - makes it raise.
C18_NeverRaises ==
    \A r \in Requests : pc[r] # "raised"

\* provider errors the specification calls terminal: authentication,
\* malformed request, token limit
TerminalOutcomes == {"authentication", "token_limit"}

\* C20: a terminal provider error (authentication, malformed request, token
\* limit) leaves complete_with_retry in the step that received it: the call
\* fails at once, without backoff wait and without another provider request.
C20_TerminalErrorNotRetried ==
    [][\A r \in Requests :
          (/\ pc[r] = "llm" /\ pc'[r] # "llm"
           /\ agent_run'[r].last_outcome \in TerminalOutcomes)
              => /\ pc'[r] = "release_get"
                 /\ result'[r] = "failure"]_vars

\* class names of rate-limit errors: the one the provider SDK raises for
\* HTTP 429 and the one QwenClient.complete raises in its place
RateLimitErrorTypes ==
    {<<"RateLimit", "Error">>, <<"LLM", "RateLimit", "Exception">>}

\* C19: a rate-limit error of the provider is not retried by any layer:
\* handle_agent_failure, given one, answers the failure at once, without
\* backoff wait and without executing the agent again.
C19_RateLimitNeverRetried ==
    [][\A h \in Handlers :
          (/\ failure_handler[h].pc \in {"idle", "done"}
           /\ failure_handler'[h] # failure_handler[h]
           /\ failure_handler'[h].error_type \in RateLimitErrorTypes)
              => /\ failure_handler'[h].pc = "done"
                 /\ failure_handler'[h].sleeps = <<>>
                 /\ failure_handler'[h].executions = 0]_vars

C22_ChainResultsUpToFailure ==
    \A c \in ChainCalls :
        chain_call[c].pc = "done" =>
            LET rec == chain_call[c]
                n == Len(rec.agents)
                i == Len(rec.step_results)
            IN /\ i <= n
               /\ n > 0 => i >= 1
               /\ \A j \in 1..(i - 1) : Success(rec.step_results[j])
               /\ i < n => ~Success(rec.step_results[i])
               /\ Cardinality(DOMAIN rec.results) = i
               /\ \A j \in 1..i :
                      /\ rec.agents[j] \in DOMAIN rec.results
                      /\ rec.results[rec.agents[j]] = rec.step_results[j]

\* C23: when execute_parallel_agents called with k tasks has returned, the
\* returned map has exactly k entries, one for every task of the list,
\* whatever agent types the tasks have and however each task ended.
C23_ParallelMapFullSized ==
    \A b \in ParallelCalls :
        parallel_call[b].pc = "done" =>
            /\ Cardinality(DOMAIN parallel_call[b].results)
                   = Len(parallel_call[b].agents)
            /\ \A i \in 1..Len(parallel_call[b].agents) :
                   parallel_call[b].agents[i] \in DOMAIN parallel_call[b].results

\* C24: execute_parallel_agents never raises; when it has returned, every
\* task has run to its end, the entry of every task that failed or raised
\* has success false, and the entry of every task whose analysis succeeded
\* has success true.
C24_FailingTaskLeavesSiblings ==
    \A b \in ParallelCalls :
        /\ parallel_call[b].pc \in {"idle", "gather", "done"}
        /\ parallel_call[b].pc = "done" =>
               LET rec == parallel_call[b]
               IN \A i \in 1..Len(rec.agents) :
                      /\ rec.tasks[i].pc \in {"returned", "raised"}
                      /\ rec.agents[i] \in DOMAIN rec.results
                      /\ Success(rec.results[rec.agents[i]])
                             <=> (/\ rec.tasks[i].pc = "returned"
                                  /\ Success(rec.tasks[i].result))

\* ---------------------------------------------------------------------
\* Properties of functions called on their own
\* ---------------------------------------------------------------------

\* C25: two computations of the cache key for the same agent and for input
\* kwargs that are equal as mappings - the same fields with the same
\* values, in whatever order the fields were supplied at any nesting level
\* - give the same key; so do repeated computations for the same kwargs.
C25_CacheKeyOrderIndependent ==
    \A k1 \in KeyCalls, k2 \in KeyCalls :
        (/\ key_call[k1].pc = "done" /\ key_call[k2].pc = "done"
         /\ key_call[k1].name = key_call[k2].name
         /\ PyEqual(key_call[k1].kwargs, key_call[k2].kwargs))
            => /\ key_call[k1].key = key_call[k2].key
               /\ key_call[k1].key
                      = result_cache_key(key_call[k1].name, key_call[k1].kwargs)

\* C25 witness: the key was computed for two kwargs that hold the same
\* fields in different order at the top level and inside the nested dict.
C25_Witness ==
    \E k1 \in KeyCalls, k2 \in KeyCalls :
        /\ key_call[k1].pc = "done" /\ key_call[k2].pc = "done"
        /\ key_call[k1].name = key_call[k2].name
        /\ key_call[k1].kwargs =
               Dict(<<<<"text", Str("a")>>,
                      <<"options", Dict(<<<<"x", Str("1")>>, <<"y", Str("1")>>>>)>>>>)
        /\ key_call[k2].kwargs =
               Dict(<<<<"options", Dict(<<<<"y", Str("1")>>, <<"x", Str("1")>>>>)>>,
                      <<"text", Str("a")>>>>)

\* C26: a routed task whose agent type is not in the allow-list of the
\* mode of the session fails with InvalidModeException, and nothing of the
\* analysis is executed for it: no request to the lock store, no agent
\* run; a task whose agent type is in the allow-list resolves to that type
\* and goes on to execute_agent.
C26_RouterEnforcesAllowList ==
    \A c \in RouteCalls :
        (route_call[c].pc # "idle" /\ route_call[c].agent_type # None) =>
            IF validate_operation(route_call[c].mode,
                                  Get(route_call[c].agent_type))
            THEN /\ route_call[c].error \notin {"InvalidModeException",
                                                 "AgentNotFoundException"}
                 /\ route_call[c].pc = "done" => route_call[c].lock_requests = 1
            ELSE /\ route_call[c].pc = "raised"
                 /\ route_call[c].error = "InvalidModeException"
                 /\ route_call[c].lock_requests = 0
                 /\ ~route_call[c].ran

\* C27: complete_with_retry with max_retries = n >= 1 never asks the
\* provider after an attempt succeeded, and returns the response of that
\* attempt; while every attempt fails with a retryable error it waits
\* 2^i seconds after failed attempt i (counted from 0) and, once n
\* attempts have failed, raises the last error after exactly n requests and
\* the n-1 waits 2^0 .. 2^(n-2), without a wait after the last attempt.
C27_RetriesExactlyMaxRetries ==
    \A l \in LlmCalls :
        LET rec == llm_call[l]
            n == rec.max_retries
            made == Len(rec.attempts)
        IN (rec.pc # "idle" /\ n >= 1) =>
               /\ made <= n
               /\ \A i \in 1..(made - 1) : rec.attempts[i] # "ok"
               /\ rec.pc = "returned"
                      <=> (made >= 1 /\ rec.attempts[made] = "ok")
               /\ rec.pc = "returned" => rec.response # None
               /\ (\A i \in 1..made : rec.attempts[i] \in RetryableOutcomes) =>
                      /\ Len(rec.sleeps) =
                             IF rec.pc = "sleep" \/ made = n THEN made - 1
                             ELSE made
                      /\ \A i \in 1..Len(rec.sleeps) : rec.sleeps[i] = 2 ^ (i - 1)
                      /\ rec.pc = "raised" <=> made = n
                      /\ rec.pc = "raised" =>
                             rec.raised = complete_raises(rec.attempts[n])

\* C27 witness: with max_retries = 3 every attempt timed out and the call
\* raised after three requests and the waits of 1 and 2 seconds.
C27_Witness ==
    \E l \in LlmCalls :
        /\ llm_call[l].max_retries = 3
        /\ llm_call[l].pc = "raised"
        /\ llm_call[l].attempts = <<"timeout", "timeout", "timeout">>
        /\ llm_call[l].sleeps = <<1, 2>>

\* ---------------------------------------------------------------------
\* Properties of the content cache of the state store
\* ---------------------------------------------------------------------

\* C28: whenever no sync or rollback is in progress, the content cache
\* entry of a session, if there is one, carries the version number and the
\* content of the latest persisted version of the session, whatever the
\* order in which concurrent syncs committed and wrote the cache.
C28_ContentCacheIsLatest ==
    \A s \in Sessions :
        (NoCallInProgress /\ content_cache[s] # None) =>
            LET latest == LatestState(Versions(s))
                entry == Get(content_cache[s])
            IN /\ latest # None
               /\ entry.version = Get(latest)
               /\ \E i \in RowsWithVersion(Versions(s), Get(latest)) :
                      Versions(s)[i].content = entry.content

\* ---------------------------------------------------------------------
\* Properties of handle_agent_failure
\* ---------------------------------------------------------------------

\* C29: handle_agent_failure called with a retryable error and retry_count
\* 0, every re-execution of the agent failing, has on its return executed
\* the agent max_retries times, each after a wait of 2^retry_count
\* seconds, and returns success false with fallback true, retry_count =
\* max_retries and the default payload of the agent type; it never
\* executes the agent more often.
C29_RetriesThenFallback ==
    \A h \in Handlers :
        LET rec == failure_handler[h]
        IN /\ rec.executions <= handler_max_retries
           /\ (rec.pc = "done" /\ is_retryable(rec.first_error_type)) =>
                  /\ rec.executions = handler_max_retries
                  /\ rec.sleeps = [i \in 1..handler_max_retries |-> 2 ^ (i - 1)]
                  /\ rec.out.success = Some(FALSE)
                  /\ rec.out.fallback = Some(TRUE)
                  /\ rec.out.retry_count = Some(handler_max_retries)
                  /\ rec.out.data = Some(FallbackPayload(rec.agent_type))

\* ---------------------------------------------------------------------
\* Properties of the result cache as a whole
\* ---------------------------------------------------------------------

====
